---- MODULE Spec2Model ----
(***************************************************************************)
(* Model of the box game's deterministic simulation core                    *)
(* (src/src/box_game.rs): the simulation state, the request dispatcher      *)
(* handle_requests, save_game_state / load_game_state over bincode, the     *)
(* transition function advance_frame and the fletcher16 checksum.           *)
(*                                                                         *)
(* Numbers.  The f32 quantities (positions, velocities, rotations and the   *)
(* window size) are held as integers counting 1/Unit, and every f32         *)
(* operation rounds its exact result to the nearest representable value,    *)
(* as IEEE-754 arithmetic does.  The bincode image of such a value is its   *)
(* 4-byte little-endian two's complement form; i32 and u64 are encoded as   *)
(* bincode encodes them (fixed width, little endian).                       *)
(***************************************************************************)
EXTENDS Integers, Sequences, FiniteSets, TLC

\* ------------------------------------------------------------------------
\* Constants of the program
\* ------------------------------------------------------------------------

FPS == 60
NUM_PLAYERS == 2
CHECKSUM_PERIOD == 100
NULL_FRAME == -1

INPUT_UP == 1
INPUT_DOWN == 2
INPUT_LEFT == 4
INPUT_RIGHT == 8

\* disconnected players spin: the literal 4 of advance_frame
SPIN_INPUT == 4

\* resolution of the fixed-point image of f32: one unit is 1/Unit
Unit == 1000

\* the element of a one-element set: { e : x \in { v } } computes v once and
\* names it x in e
Only(S) == CHOOSE x \in S : TRUE

\* a / b rounded to the nearest integer (ties away from zero), b > 0
RDiv(a, b) ==
    IF a >= 0 THEN (2 * a + b) \div (2 * b)
    ELSE -((2 * (-a) + b) \div (2 * b))

\* f32 product and quotient of two fixed-point values
FMul(a, b) == RDiv(a * b, Unit)
FDiv(a, b) == RDiv(a * Unit, b)

MOVEMENT_SPEED == RDiv(15 * Unit, FPS)
ROTATION_SPEED == RDiv(25 * Unit, 10 * FPS)
MAX_SPEED == 7 * Unit
\* FRICTION is 0.98
FRICTION == RDiv(98 * Unit, 100)

\* width of the significand kept by the sums of the rotation arithmetic; f32
\* keeps 24 bits over a much finer unit
SigBits == 10

\* the spacing of the representable values around a >= 0
RECURSIVE Ulp(_)
Ulp(a) == IF a < 2 ^ SigBits THEN 1 ELSE 2 * Ulp(a \div 2)

\* x rounded to SigBits significant bits, ties to the even significand: the
\* rounding of an f32 sum
Float(x) ==
    LET a == IF x < 0 THEN -x ELSE x
        u == Ulp(a)
        q == a \div u
        r == a % u
        n == IF 2 * r > u \/ (2 * r = u /\ q % 2 = 1) THEN q + 1 ELSE q
    IN IF x < 0 THEN -(n * u) ELSE n * u

\* std::f32::consts::PI and 2.0 * PI
PI == RDiv(31416 * Unit, 10000)
TWO_PI == Float(2 * PI)

\* ------------------------------------------------------------------------
\* f32 library functions used by advance_frame
\* ------------------------------------------------------------------------

\* trigonometric series are evaluated with one more decimal digit
TrigUnit == 10 * Unit
TMul(a, b) == RDiv(a * b, TrigUnit)
HalfPiT == RDiv(15708 * TrigUnit, 10000)
PiT == RDiv(31416 * TrigUnit, 10000)

\* sin and cos of t (in 1/TrigUnit) for 0 <= t <= pi/2, by their series
SinSeries(t) ==
    LET t2 == TMul(t, t)
        h4 == TrigUnit - RDiv(t2, 72)
        h3 == TrigUnit - RDiv(TMul(t2, h4), 42)
        h2 == TrigUnit - RDiv(TMul(t2, h3), 20)
        h1 == TrigUnit - RDiv(TMul(t2, h2), 6)
    IN TMul(t, h1)

CosSeries(t) ==
    LET t2 == TMul(t, t)
        h5 == TrigUnit - RDiv(t2, 90)
        h4 == TrigUnit - RDiv(TMul(t2, h5), 56)
        h3 == TrigUnit - RDiv(TMul(t2, h4), 30)
        h2 == TrigUnit - RDiv(TMul(t2, h3), 12)
    IN TrigUnit - RDiv(TMul(t2, h2), 2)

\* f32::sin / f32::cos of a rotation 0 <= rot <= 2 pi (in 1/Unit)
SinT(t) ==
    IF t <= HalfPiT THEN SinSeries(t)
    ELSE IF t <= PiT THEN SinSeries(PiT - t)
    ELSE IF t <= PiT + HalfPiT THEN -SinSeries(t - PiT)
    ELSE -SinSeries(IF 2 * PiT - t < 0 THEN 0 ELSE 2 * PiT - t)

CosT(t) ==
    IF t <= HalfPiT THEN CosSeries(t)
    ELSE IF t <= PiT THEN -CosSeries(PiT - t)
    ELSE IF t <= PiT + HalfPiT THEN -CosSeries(t - PiT)
    ELSE CosSeries(IF 2 * PiT - t < 0 THEN 0 ELSE 2 * PiT - t)

Sin(rot) == RDiv(SinT(rot * (TrigUnit \div Unit)), TrigUnit \div Unit)
Cos(rot) == RDiv(CosT(rot * (TrigUnit \div Unit)), TrigUnit \div Unit)

\* floor of the square root of n >= 0, by bisection on [lo, hi)
RECURSIVE ISqrtIn(_, _, _)
ISqrtIn(n, lo, hi) ==
    IF hi - lo <= 1 THEN lo
    ELSE IF ((lo + hi) \div 2) * ((lo + hi) \div 2) <= n
         THEN ISqrtIn(n, (lo + hi) \div 2, hi)
         ELSE ISqrtIn(n, lo, (lo + hi) \div 2)

\* f32::sqrt of a fixed-point value q >= 0: the root of q * Unit rounded to the
\* nearest integer
Sqrt(q) ==
    LET n == q * Unit
        r == ISqrtIn(n, 0, 46341)
    IN IF n - r * r > r THEN r + 1 ELSE r

\* (vel_x * vel_x + vel_y * vel_y).sqrt()
Magnitude(vx, vy) == Sqrt(FMul(vx, vx) + FMul(vy, vy))

\* f32::rem_euclid: r = a % m keeps the sign of a and is exact; a negative r
\* is returned as the f32 sum r + m
RemEuclid(a, m) ==
    Only({ IF r < 0 THEN Float(r + m) ELSE r :
             r \in { IF a < 0 THEN -((-a) % m) ELSE a % m } })

\* f32::max and f32::min
Max(a, b) == IF a >= b THEN a ELSE b
Min(a, b) == IF a <= b THEN a ELSE b

\* u8 bit test: input & mask != 0, for a one-bit mask
BitSet(input, mask) == (input \div mask) % 2 = 1

\* ------------------------------------------------------------------------
\* bincode: fixed-width little-endian integers, a Vec as its u64 length
\* followed by its elements, a tuple as its fields in order
\* ------------------------------------------------------------------------

\* the 4 little-endian bytes of a 32-bit value -2^31 <= v < 2^31
Bytes32(v) ==
    LET u == IF v >= 0 THEN v ELSE (v + 1073741824) + 1073741824
        top == IF v >= 0 THEN u \div 16777216 ELSE (u \div 16777216) + 128
    IN << u % 256, (u \div 256) % 256, (u \div 65536) % 256, top >>

\* the value of 4 little-endian bytes read as a signed 32-bit integer
Value32(b) ==
    LET low == b[1] + 256 * b[2] + 65536 * b[3]
    IN IF b[4] < 128 THEN low + 16777216 * b[4]
       ELSE low + 16777216 * (b[4] - 256)

\* the 8 little-endian bytes of a u64 length (lengths here are below 2^31)
Bytes64(n) == Bytes32(n) \o << 0, 0, 0, 0 >>

\* a u64 length read from 8 bytes; -1 when it does not fit the model's range
Value64(b) ==
    IF b[5] = 0 /\ b[6] = 0 /\ b[7] = 0 /\ b[8] = 0 /\ b[4] < 128
    THEN Value32(SubSeq(b, 1, 4)) ELSE -1

\* Vec<(f32, f32)>
RECURSIVE SerPairs(_)
SerPairs(v) ==
    IF v = << >> THEN << >>
    ELSE Bytes32(Head(v)[1]) \o Bytes32(Head(v)[2]) \o SerPairs(Tail(v))

\* Vec<f32> elements
RECURSIVE SerScalars(_)
SerScalars(v) ==
    IF v = << >> THEN << >>
    ELSE Bytes32(Head(v)) \o SerScalars(Tail(v))

\* Serialize writing the velocities before the positions
SerializeSwapped(gs) ==
    Bytes32(gs.frame)
    \o Bytes64(Len(gs.velocities)) \o SerPairs(gs.velocities)
    \o Bytes64(Len(gs.positions)) \o SerPairs(gs.positions)
    \o Bytes64(Len(gs.rotations)) \o SerScalars(gs.rotations)

\* bincode::serialize(&BoxGameState): frame, positions, velocities, rotations
Serialize(gs) ==
    Bytes32(gs.frame)
    \o Bytes64(Len(gs.positions)) \o SerPairs(gs.positions)
    \o Bytes64(Len(gs.velocities)) \o SerPairs(gs.velocities)
    \o Bytes64(Len(gs.rotations)) \o SerScalars(gs.rotations)

\* n pairs read from buf starting at byte offset at (1-based)
DePairs(buf, at, n) ==
    [k \in 1..n |-> << Value32(SubSeq(buf, at + 8 * (k - 1), at + 8 * (k - 1) + 3)),
                       Value32(SubSeq(buf, at + 8 * (k - 1) + 4, at + 8 * (k - 1) + 7)) >>]

\* n scalars read from buf starting at byte offset at
DeScalars(buf, at, n) ==
    [k \in 1..n |-> Value32(SubSeq(buf, at + 4 * (k - 1), at + 4 * (k - 1) + 3))]

\* whether a Vec header of 8 bytes at offset at, with elements of width w,
\* lies inside buf
VecFits(buf, at, w) ==
    /\ at + 7 <= Len(buf)
    /\ Value64(SubSeq(buf, at, at + 7)) >= 0
    /\ at + 8 + w * Value64(SubSeq(buf, at, at + 7)) - 1 <= Len(buf)

\* bincode::deserialize::<BoxGameState>(buf): [ok |-> FALSE] when the buffer ends
\* early, else the state read field by field (trailing bytes are not an error)
Deserialize(buf) ==
    IF Len(buf) < 4 \/ ~VecFits(buf, 5, 8) THEN [ok |-> FALSE]
    ELSE
      LET np == Value64(SubSeq(buf, 5, 12))
          vat == 13 + 8 * np
      IN IF ~VecFits(buf, vat, 8) THEN [ok |-> FALSE]
         ELSE
           LET nv == Value64(SubSeq(buf, vat, vat + 7))
               rat == vat + 8 + 8 * nv
           IN IF ~VecFits(buf, rat, 4) THEN [ok |-> FALSE]
              ELSE
                LET nr == Value64(SubSeq(buf, rat, rat + 7))
                IN [ok |-> TRUE,
                    state |-> [frame |-> Value32(SubSeq(buf, 1, 4)),
                               positions |-> DePairs(buf, 13, np),
                               velocities |-> DePairs(buf, vat + 8, nv),
                               rotations |-> DeScalars(buf, rat + 8, nr)]]

\* bincode::deserialize::<u8>(inputs[i].input()): the first byte, or failure on
\* an empty buffer
DecodeInput(buf) ==
    IF Len(buf) < 1 THEN [ok |-> FALSE] ELSE [ok |-> TRUE, input |-> buf[1]]

\* ------------------------------------------------------------------------
\* fletcher16
\* ------------------------------------------------------------------------

\* the value a u16 holds after an addition or a shift
U16(x) == x % 65536

\* the loop body with sums reduced modulo 256
FletcherStepWide(sums, d) ==
    << U16(sums[1] + d) % 256, U16(sums[2] + (U16(sums[1] + d) % 256)) % 256 >>

\* one pass of the loop body of fletcher16 on the byte d, with the running
\* sums << sum1, sum2 >>
FletcherStep(sums, d) ==
    << U16(sums[1] + d) % 255, U16(sums[2] + (U16(sums[1] + d) % 255)) % 255 >>

\* the loop of fletcher16 over data[lo..hi] in index order, entered with the
\* running sums: a range of several bytes is run as its first half, then its
\* second half from the sums the first half leaves
RECURSIVE FletcherLoop(_, _, _, _)
FletcherLoop(data, lo, hi, sums) ==
    IF lo > hi THEN sums
    ELSE IF lo = hi THEN FletcherStep(sums, data[lo])
    ELSE Only({ FletcherLoop(data, (lo + hi) \div 2 + 1, hi, s) :
                  s \in { FletcherLoop(data, lo, (lo + hi) \div 2, sums) } })

\* (sum2 << 8) | sum1 on u16: sum1 < 256, so the or is a sum; the shift drops
\* the bits above 16
fletcher16(data) ==
    Only({ U16(sums[2] * 256) + sums[1] :
             sums \in { FletcherLoop(data, 1, Len(data), << 0, 0 >>) } })

\* ------------------------------------------------------------------------
\* BoxGameState and the transition function
\* ------------------------------------------------------------------------

Players == 1..NUM_PLAYERS

\* BoxGameState::new() under a window of width w and height h; player slot
\* i of the source is index i + 1 here
NewGameState(w, h) ==
    [frame |-> 0,
     positions |-> [p \in Players |->
        << RDiv(w, 2) + (2 * (p - 1) - 1) * RDiv(w, 4), RDiv(h, 2) >>],
     velocities |-> [p \in Players |-> << 0, 0 >>],
     rotations |-> [p \in Players |-> 0]]

\* PlayerInput decoding the buffer whatever the frame of the input
PlayerInputDecoded(gi) == DecodeInput(gi.buffer)

\* the input advance_frame uses for a player: 4 for the sentinel frame,
\* otherwise the decoded buffer
PlayerInput(gi) ==
    IF gi.frame = NULL_FRAME THEN [ok |-> TRUE, input |-> SPIN_INPUT]
    ELSE DecodeInput(gi.buffer)

\* MOVEMENT_SPEED * rot.cos() and MOVEMENT_SPEED * rot.sin()
Acceleration(rot) ==
    << FMul(MOVEMENT_SPEED, Cos(rot)), FMul(MOVEMENT_SPEED, Sin(rot)) >>

\* SlowDown dividing by the friction factor
SlowDownInverse(old_vel) ==
    << FDiv(old_vel[1], FRICTION), FDiv(old_vel[2], FRICTION) >>

\* slow down
SlowDown(old_vel) == << FMul(old_vel[1], FRICTION), FMul(old_vel[2], FRICTION) >>

\* thrust: up and not down adds the acceleration acc to the velocity
ThrustStep(vel, acc, input) ==
    IF BitSet(input, INPUT_UP) /\ ~BitSet(input, INPUT_DOWN)
    THEN << vel[1] + acc[1], vel[2] + acc[2] >> ELSE vel

\* break: down and not up subtracts it
BrakeStep(vel, acc, input) ==
    IF ~BitSet(input, INPUT_UP) /\ BitSet(input, INPUT_DOWN)
    THEN << vel[1] - acc[1], vel[2] - acc[2] >> ELSE vel

\* the velocity after slow down, thrust and break
Thrust(old_vel, rot, input) ==
    Only({ BrakeStep(ThrustStep(vel, acc, input), acc, input) :
             vel \in { SlowDown(old_vel) }, acc \in { Acceleration(rot) } })

\* turn left, then turn right
Turn(rot, input) ==
    Only({ IF ~BitSet(input, INPUT_LEFT) /\ BitSet(input, INPUT_RIGHT)
           THEN RemEuclid(Float(rot1 + ROTATION_SPEED), TWO_PI) ELSE rot1 :
             rot1 \in { IF BitSet(input, INPUT_LEFT) /\ ~BitSet(input, INPUT_RIGHT)
                        THEN RemEuclid(Float(rot - ROTATION_SPEED), TWO_PI) ELSE rot } })

\* the velocity scaled to MAX_SPEED when its magnitude exceeds it
Scale(vel, magnitude) ==
    IF magnitude > MAX_SPEED
    THEN << FDiv(FMul(vel[1], MAX_SPEED), magnitude),
            FDiv(FMul(vel[2], MAX_SPEED), magnitude) >>
    ELSE vel

\* limit speed
LimitSpeed(vel) ==
    Only({ Scale(vel, magnitude) : magnitude \in { Magnitude(vel[1], vel[2]) } })

\* constrain boxes to canvas borders: both axes are limited by screen_width()
Constrain(pos, sw) ==
    << Min(Max(pos[1], 0), sw), Min(Max(pos[2], 0), sw) >>

\* compute new position
Move(old_pos, vel, sw) ==
    Constrain(<< old_pos[1] + vel[1], old_pos[2] + vel[2] >>, sw)

\* the velocity of player p after the loop body
NewVelocity(gs, p, input) ==
    Only({ LimitSpeed(v) : v \in { Thrust(gs.velocities[p], gs.rotations[p], input) } })

\* one pass of the per-player loop body for player p with the input decoded
UpdatePlayer(gs, p, input, sw) ==
    Only({ [gs EXCEPT !.positions[p] = Move(gs.positions[p], vel, sw),
                      !.velocities[p] = vel,
                      !.rotations[p] = Turn(gs.rotations[p], input)] :
             vel \in { NewVelocity(gs, p, input) } })

\* the loop for i in 0..NUM_PLAYERS from player p on: it stops where an input
\* is missing or does not decode (the unwrap panics), with the players before
\* it already updated
RECURSIVE PlayerLoop(_, _, _, _)
PlayerLoop(gs, inputs, p, sw) ==
    IF p > NUM_PLAYERS THEN [ok |-> TRUE, state |-> gs]
    ELSE IF p > Len(inputs) \/ ~PlayerInput(inputs[p]).ok
         THEN [ok |-> FALSE, state |-> gs]
         ELSE Only({ PlayerLoop(g, inputs, p + 1, sw) :
                       g \in { UpdatePlayer(gs, p, PlayerInput(inputs[p]).input, sw) } })

\* Remember replacing the periodic record at every frame
RememberAlways(bg, gs, checksum) ==
    [game_state |-> gs,
     last_checksum |-> << gs.frame, checksum >>,
     periodic_checksum |-> << gs.frame, checksum >>]

\* Remember recording the checksum under the frame the Advance started from
RememberOldFrame(bg, gs, checksum) ==
    [game_state |-> gs,
     last_checksum |-> << bg.game_state.frame, checksum >>,
     periodic_checksum |->
        IF gs.frame % CHECKSUM_PERIOD = 0 THEN << gs.frame, checksum >>
        ELSE bg.periodic_checksum]

\* the fields of the BoxGame after the loop left the state gs: the checksum
\* of the state is remembered
Remember(bg, gs, checksum) ==
    [game_state |-> gs,
     last_checksum |-> << gs.frame, checksum >>,
     periodic_checksum |->
        IF gs.frame % CHECKSUM_PERIOD = 0 THEN << gs.frame, checksum >>
        ELSE bg.periodic_checksum]

\* NextFrame leaving the frame counter as it is
NextFrameKept(gs) == gs

\* self.game_state.frame += 1
NextFrame(gs) == [gs EXCEPT !.frame = @ + 1]

\* BoxGame::advance_frame on the fields bg of a BoxGame, under screen width sw
advance_frame(bg, inputs, sw) ==
    Only({ IF ~done.ok
           THEN [ok |-> FALSE, bg |-> [bg EXCEPT !.game_state = done.state]]
           ELSE [ok |-> TRUE,
                 bg |-> Only({ Remember(bg, done.state, checksum) :
                          checksum \in { fletcher16(Serialize(done.state)) } })] :
             done \in { PlayerLoop(NextFrame(bg.game_state), inputs, 1, sw) } })

\* BoxGame::new() under a window of width w and height h
NewBoxGame(w, h) ==
    [game_state |-> NewGameState(w, h),
     last_checksum |-> << NULL_FRAME, 0 >>,
     periodic_checksum |-> << NULL_FRAME, 0 >>]

\* ------------------------------------------------------------------------
\* Snapshot cells and save / load
\* ------------------------------------------------------------------------

\* a cell nothing was saved into: no buffer, no checksum
EmptyCell == [frame |-> NULL_FRAME, some |-> FALSE, buffer |-> << >>, checksum |-> 0]

\* GameState::new(frame, Some(buffer), Some(checksum))
GameState(frame, buffer, checksum) ==
    [frame |-> frame, some |-> TRUE, buffer |-> buffer, checksum |-> checksum]

\* save_game_state returning quietly, without saving, on a frame that is not
\* the live one
SaveSkipping(bg, cell, frame) ==
    IF bg.game_state.frame # frame THEN [ok |-> TRUE, cell |-> cell]
    ELSE Only({ [ok |-> TRUE, cell |-> GameState(frame, buffer, fletcher16(buffer))] :
                  buffer \in { Serialize(bg.game_state) } })

\* save_game_state without the assertion: the live state is deposited under
\* whatever frame is asked for
SaveUnchecked(bg, cell, frame) ==
    Only({ [ok |-> TRUE, cell |-> GameState(frame, buffer, fletcher16(buffer))] :
             buffer \in { Serialize(bg.game_state) } })

\* BoxGame::save_game_state: the assert_eq! fails on a frame that is not the
\* live one; else the cell receives the serialized state and its checksum
save_game_state(bg, cell, frame) ==
    IF bg.game_state.frame # frame THEN [ok |-> FALSE, cell |-> cell]
    ELSE Only({ [ok |-> TRUE, cell |-> GameState(frame, buffer, fletcher16(buffer))] :
                  buffer \in { Serialize(bg.game_state) } })

\* load_game_state merging: the rotations of the live state survive the load
LoadMerged(bg, cell) ==
    IF ~cell.some THEN [ok |-> FALSE, bg |-> bg]
    ELSE Only({ IF ~de.ok THEN [ok |-> FALSE, bg |-> bg]
                ELSE [ok |-> TRUE,
                      bg |-> [bg EXCEPT !.game_state =
                                [de.state EXCEPT !.rotations = bg.game_state.rotations]]] :
                  de \in { Deserialize(cell.buffer) } })

\* load_game_state taking the last-checksum record from the cell it loads
LoadRefreshing(bg, cell) ==
    IF ~cell.some THEN [ok |-> FALSE, bg |-> bg]
    ELSE Only({ IF ~de.ok THEN [ok |-> FALSE, bg |-> bg]
                ELSE [ok |-> TRUE,
                      bg |-> [bg EXCEPT !.game_state = de.state,
                                        !.last_checksum =
                                            << de.state.frame, cell.checksum >>]] :
                  de \in { Deserialize(cell.buffer) } })

\* BoxGame::load_game_state: both unwraps panic, on a cell without a buffer
\* and on a buffer that does not deserialize
load_game_state(bg, cell) ==
    IF ~cell.some THEN [ok |-> FALSE, bg |-> bg]
    ELSE Only({ IF ~de.ok THEN [ok |-> FALSE, bg |-> bg]
                ELSE [ok |-> TRUE, bg |-> [bg EXCEPT !.game_state = de.state]] :
                  de \in { Deserialize(cell.buffer) } })

\* ------------------------------------------------------------------------
\* Bounds and inputs of the exploration
\* ------------------------------------------------------------------------

\* requests the session hands over in its short batches, in total
MaxRequests == 3

\* frames a coasting session runs without any key pressed
MaxCoast == 1000

\* the snapshot cells of the session
Cells == { 1, 2 }

\* window sizes (width, height) in pixels: the landscape default and the
\* portrait window of the spectator's constants
Screens == { << 800 * Unit, 600 * Unit >>, << 600 * Unit, 800 * Unit >> }

\* a GameInput of a connected player carrying the byte b, and of a player
\* without input (sentinel frame) whose buffer holds buf
Connected(b) == [frame |-> 0, buffer |-> << b >>]
Disconnected(buf) == [frame |-> NULL_FRAME, buffer |-> buf]

Idle == << Connected(0), Connected(0) >>
ThrustOnly == << Connected(INPUT_UP), Connected(0) >>
TurnRight == << Connected(INPUT_RIGHT), Disconnected(<< >>) >>
BrakeLeft == << Connected(INPUT_DOWN + INPUT_LEFT),
                Connected(INPUT_UP + INPUT_DOWN + INPUT_LEFT + INPUT_RIGHT) >>
Garbage == << Disconnected(<< INPUT_UP >>), Connected(INPUT_UP + INPUT_RIGHT) >>
\* player 0 thrusts and turns, player 1's input has no byte to decode
Undecodable == << Connected(INPUT_UP + INPUT_RIGHT), [frame |-> 0, buffer |-> << >>] >>

\* the input lists of single Advance requests
InputLists == { Idle, Garbage, Undecodable }

\* the requests
LoadGameState(c) == [kind |-> "Load", cell |-> c]
SaveGameState(c, f) == [kind |-> "Save", cell |-> c, frame |-> f]
AdvanceFrame(inputs) == [kind |-> "Advance", inputs |-> inputs]

\* the requests a batch received at live frame f0 is made of
Alphabet(f0) ==
    { LoadGameState(c) : c \in Cells }
    \cup { SaveGameState(c, f) : c \in Cells, f \in { f0, f0 + 1 } }
    \cup { AdvanceFrame(i) : i \in InputLists }

\* A batch (the Vec<GGRSRequest> given to handle_requests) is held as a
\* sequence of segments [req, count]: the request req repeated count times.
Segment(r, n) == [req |-> r, count |-> n]

\* batches of at most two requests in any order
ShortBatches(f0) ==
    UNION { [1..n -> { Segment(r, 1) : r \in Alphabet(f0) }] : n \in 0..2 }

\* batches that advance many frames: past the checksum periods, up to the
\* speed limit and into the borders of the window, one of them with a
\* snapshot taken on the way
LongBatches ==
    { << Segment(AdvanceFrame(TurnRight), 40),
         Segment(SaveGameState(1, 40), 1),
         Segment(AdvanceFrame(ThrustOnly), CHECKSUM_PERIOD) >>,
      << Segment(AdvanceFrame(BrakeLeft), 2 * CHECKSUM_PERIOD) >> }

\* the batches the session may hand over at live frame f0 when it has handed
\* over n requests so far: a short batch within the total, or a long batch
\* as its first one
Batches(n, f0, first) ==
    { b \in ShortBatches(f0) : n + Len(b) <= MaxRequests }
    \cup (IF first THEN LongBatches ELSE { })

\* ------------------------------------------------------------------------
\* State
\* ------------------------------------------------------------------------

VARIABLES
    game_state,         \* BoxGame.game_state
    last_checksum,      \* BoxGame.last_checksum
    periodic_checksum,  \* BoxGame.periodic_checksum
    cells,              \* the contents of the session's GameStateCells
    screen,             \* the window's (width, height), read by screen_width()
    requests,           \* the batch handle_requests is iterating over
    pc,                 \* position of the loop of handle_requests in the batch:
                        \* (segment, repetition) of the next request
    status,             \* "running", or the panic that ended the process
    received,           \* requests received in short batches so far
    start,              \* the engine, the cells and the window when the batch
                        \* was received
    fletcher            \* a call of fletcher16 followed pass by pass: data,
                        \* index, sum1, sum2 and the value returned

vars == << game_state, last_checksum, periodic_checksum, cells, screen,
           requests, pc, status, received, start, fletcher >>

\* the fields of the BoxGame
Game ==
    [game_state |-> game_state, last_checksum |-> last_checksum,
     periodic_checksum |-> periodic_checksum]

\* fletcher16 entered with data: index is the next byte (the source's index
\* plus one)
Call(data) ==
    [data |-> data, index |-> 1, sum1 |-> 0, sum2 |-> 0,
     returned |-> FALSE, value |-> 0]

\* BoxGame::new() and an empty session
GameInit ==
    /\ screen \in Screens
    /\ game_state = NewBoxGame(screen[1], screen[2]).game_state
    /\ last_checksum = NewBoxGame(screen[1], screen[2]).last_checksum
    /\ periodic_checksum = NewBoxGame(screen[1], screen[2]).periodic_checksum
    /\ cells = [c \in Cells |-> EmptyCell]
    /\ requests = << >>
    /\ pc = << 1, 1 >>
    /\ status = "running"
    /\ received = 0
    /\ start = [game |-> NewBoxGame(screen[1], screen[2]),
                cells |-> [c \in Cells |-> EmptyCell], screen |-> screen]

\* the sessions do not follow the calls of fletcher16 pass by pass
Init == GameInit /\ fletcher = Call(<< >>)

\* handle_requests has finished the batch it was given
BatchDone == pc[1] > Len(requests)

\* the request the loop of handle_requests is at
Request == requests[pc[1]].req

\* the main loop hands the session's next batch to handle_requests
Tick ==
    /\ status = "running"
    /\ BatchDone
    /\ \E batch \in Batches(received, game_state.frame,
                             received = 0 /\ game_state.frame = 0) :
          /\ requests' = batch
          /\ pc' = << 1, 1 >>
          /\ received' = IF batch \in LongBatches THEN received
                         ELSE received + Len(batch)
    /\ start' = [game |-> Game, cells |-> cells, screen |-> screen]
    /\ UNCHANGED << fletcher, game_state, last_checksum, periodic_checksum, cells, screen,
                    status >>

\* the window is resized between two iterations of the main loop
Resize ==
    /\ status = "running"
    /\ BatchDone
    /\ \E s \in Screens \ { screen } : screen' = s
    /\ UNCHANGED << fletcher, game_state, last_checksum, periodic_checksum, cells,
                    requests, pc, status, received, start >>

\* NextPc passing over the request that follows the last of a segment
NextPcSkipping ==
    IF pc[2] < requests[pc[1]].count THEN << pc[1], pc[2] + 1 >>
    ELSE << pc[1] + 2, 1 >>

\* the position handle_requests reaches after the request at pc
NextPc ==
    IF pc[2] < requests[pc[1]].count THEN << pc[1], pc[2] + 1 >>
    ELSE << pc[1] + 1, 1 >>

\* GGRSRequest::LoadGameState { cell } => self.load_game_state(cell)
Load ==
    /\ status = "running"
    /\ ~BatchDone
    /\ Request.kind = "Load"
    /\ \E r \in { load_game_state(Game, cells[Request.cell]) } :
          /\ game_state' = r.bg.game_state
          /\ last_checksum' = r.bg.last_checksum
          /\ periodic_checksum' = r.bg.periodic_checksum
          /\ status' = IF r.ok THEN "running" ELSE "panic: unwrap"
    /\ pc' = NextPc
    /\ UNCHANGED << fletcher, cells, screen, requests, received, start >>

\* GGRSRequest::SaveGameState { cell, frame } => self.save_game_state(cell, frame)
Save ==
    /\ status = "running"
    /\ ~BatchDone
    /\ Request.kind = "Save"
    /\ \E r \in { save_game_state(Game, cells[Request.cell], Request.frame) } :
          /\ cells' = [cells EXCEPT ![Request.cell] = r.cell]
          /\ status' = IF r.ok THEN "running" ELSE "panic: assert_eq"
    /\ pc' = NextPc
    /\ UNCHANGED << fletcher, game_state, last_checksum, periodic_checksum, screen,
                    requests, received, start >>

\* Advance swallowing the failure of advance_frame: the loop goes on to the
\* next request
AdvanceCarryingOn ==
    /\ status = "running"
    /\ ~BatchDone
    /\ Request.kind = "Advance"
    /\ \E r \in { advance_frame(Game, Request.inputs, screen[1]) } :
          /\ game_state' = r.bg.game_state
          /\ last_checksum' = r.bg.last_checksum
          /\ periodic_checksum' = r.bg.periodic_checksum
          /\ status' = "running"
    /\ pc' = NextPc
    /\ UNCHANGED << fletcher, cells, screen, requests, received, start >>

\* GGRSRequest::AdvanceFrame { inputs } => self.advance_frame(inputs)
Advance ==
    /\ status = "running"
    /\ ~BatchDone
    /\ Request.kind = "Advance"
    /\ \E r \in { advance_frame(Game, Request.inputs, screen[1]) } :
          /\ game_state' = r.bg.game_state
          /\ last_checksum' = r.bg.last_checksum
          /\ periodic_checksum' = r.bg.periodic_checksum
          /\ status' = IF r.ok THEN "running" ELSE "panic: unwrap"
    /\ pc' = NextPc
    /\ UNCHANGED << fletcher, cells, screen, requests, received, start >>

Next == Tick \/ Resize \/ Load \/ Save \/ Advance

Spec == Init /\ [][Next]_vars

\* ------------------------------------------------------------------------
\* A coasting session: keys are held for some frames and then released
\* ------------------------------------------------------------------------

\* player 0 brakes, player 1 presses no key
BrakeOnly == << Connected(INPUT_DOWN), Connected(0) >>

\* the batches of a coasting session: player 0 thrusts ahead into the right
\* border, or thrusts for a shorter time and stops short of it, or backs into
\* the left border, and then no key is pressed
CoastBatches ==
    { << Segment(AdvanceFrame(ThrustOnly), CHECKSUM_PERIOD),
         Segment(AdvanceFrame(Idle), MaxCoast) >>,
      << Segment(AdvanceFrame(ThrustOnly), 52),
         Segment(AdvanceFrame(Idle), MaxCoast) >>,
      << Segment(AdvanceFrame(BrakeOnly), CHECKSUM_PERIOD),
         Segment(AdvanceFrame(Idle), MaxCoast) >> }

\* the main loop hands a coasting batch to handle_requests
CoastTick ==
    /\ status = "running"
    /\ requests = << >>
    /\ \E batch \in CoastBatches :
          /\ requests' = batch
          /\ pc' = << 1, 1 >>
    /\ start' = [game |-> Game, cells |-> cells, screen |-> screen]
    /\ UNCHANGED << fletcher, game_state, last_checksum, periodic_checksum, cells, screen,
                    status, received >>

CoastNext == CoastTick \/ Advance

\* handle_requests runs every request of the batch it was given
CoastSpec == Init /\ [][CoastNext]_vars

\* ------------------------------------------------------------------------
\* A session that turns: batches of Advances alone
\* ------------------------------------------------------------------------

\* player 0 turns left, player 1 presses both turn keys
TurnLeft == << Connected(INPUT_LEFT), Connected(INPUT_LEFT + INPUT_RIGHT) >>

\* the batches of a turning session: player 0 turns right and then as long to
\* the left, or turns left all the time
TurnBatches ==
    { << Segment(AdvanceFrame(TurnRight), 49),
         Segment(AdvanceFrame(TurnLeft), 49) >>,
      << Segment(AdvanceFrame(TurnLeft), 2 * CHECKSUM_PERIOD) >> }

\* the main loop hands a batch of the turning session to handle_requests
TurnTick ==
    /\ status = "running"
    /\ requests = << >>
    /\ \E batch \in TurnBatches :
          /\ requests' = batch
          /\ pc' = << 1, 1 >>
    /\ start' = [game |-> Game, cells |-> cells, screen |-> screen]
    /\ UNCHANGED << fletcher, game_state, last_checksum, periodic_checksum, cells, screen,
                    status, received >>

TurnNext == TurnTick \/ Advance

\* handle_requests runs every request of the batch it was given
TurnSpec == Init /\ [][TurnNext]_vars

\* ------------------------------------------------------------------------
\* fletcher16 followed pass by pass
\* ------------------------------------------------------------------------

\* longest enumerated buffer
MaxLen == 3

\* bytes of the enumerated buffers: the smallest and the largest, and the
\* residues 1 and 254
FletcherBytes == { 0, 1, 254, 255 }

\* the buffers fletcher16 is called with: every buffer of FletcherBytes up to
\* MaxLen, the bytes of "abcde", and the serialized initial state
FletcherInputs ==
    UNION { [1..n -> FletcherBytes] : n \in 0..MaxLen }
    \cup { << 97, 98, 99, 100, 101 >>,
           Serialize(NewGameState(800 * Unit, 600 * Unit)) }

FletcherInit == GameInit /\ fletcher \in { Call(data) : data \in FletcherInputs }

\* for index in 0..data.len() { ... }
FletcherPass ==
    /\ ~fletcher.returned
    /\ fletcher.index <= Len(fletcher.data)
    /\ \E sums \in { FletcherStep(<< fletcher.sum1, fletcher.sum2 >>,
                                  fletcher.data[fletcher.index]) } :
          fletcher' = [fletcher EXCEPT !.sum1 = sums[1], !.sum2 = sums[2],
                                       !.index = @ + 1]
    /\ UNCHANGED << game_state, last_checksum, periodic_checksum, cells, screen,
                    requests, pc, status, received, start >>

\* (sum2 << 8) | sum1
FletcherReturn ==
    /\ ~fletcher.returned
    /\ fletcher.index > Len(fletcher.data)
    /\ fletcher' = [fletcher EXCEPT !.returned = TRUE,
                                    !.value = U16(fletcher.sum2 * 256) + fletcher.sum1]
    /\ UNCHANGED << game_state, last_checksum, periodic_checksum, cells, screen,
                    requests, pc, status, received, start >>

FletcherNext == FletcherPass \/ FletcherReturn

FletcherSpec == FletcherInit /\ [][FletcherNext]_vars

\* ------------------------------------------------------------------------
\* Steps of the dispatcher, as seen from the state before them
\* ------------------------------------------------------------------------

\* the next step is handle_requests running the request at pc
Handling(kind) == status = "running" /\ ~BatchDone /\ Request.kind = kind

\* the request handle_requests ran last
Last ==
    IF pc[2] > 1 THEN requests[pc[1]].req ELSE requests[pc[1] - 1].req

\* some request of the batch has been run
Ran == pc # << 1, 1 >>

\* x * x + y * y of a velocity, in squared units
SquaredSpeed(vel) == vel[1] * vel[1] + vel[2] * vel[2]

\* ------------------------------------------------------------------------
\* C1
\* ------------------------------------------------------------------------

\* the batch is a Save of the live frame into a cell followed by a Load from
\* that cell, and both have been run
SavedThenLoaded ==
    /\ status = "running"
    /\ BatchDone
    /\ Len(requests) = 2
    /\ requests[1].req.kind = "Save"
    /\ requests[2].req.kind = "Load"
    /\ requests[1].req.cell = requests[2].req.cell

\* C1: in every reachable state, a Save of the live frame into a cell followed
\* immediately by a Load from that cell leaves the live state equal in every
\* field (frame, positions, velocities, rotations) to the state before the Save.
C1_RoundTrip ==
    SavedThenLoaded =>
        /\ game_state.frame = start.game.game_state.frame
        /\ game_state.positions = start.game.game_state.positions
        /\ game_state.velocities = start.game.game_state.velocities
        /\ game_state.rotations = start.game.game_state.rotations

\* a round trip of a state past frame 0 that holds a negative velocity and a
\* non-zero rotation
C1_Witness ==
    /\ SavedThenLoaded
    /\ game_state.frame > 0
    /\ \E p \in Players : game_state.velocities[p][1] < 0
    /\ \E p \in Players : game_state.rotations[p] > 0

\* ------------------------------------------------------------------------
\* C2
\* ------------------------------------------------------------------------

\* C2: Advance is deterministic in the state and the inputs alone: two engines
\* in the same state that receive the same inputs reach the same state and the
\* same checksum records, whatever the window sizes they read.
C2_Determinism ==
    status = "running" =>
        \A inputs \in InputLists : \A s1, s2 \in Screens :
            advance_frame(Game, inputs, s1[1]) = advance_frame(Game, inputs, s2[1])

\* ------------------------------------------------------------------------
\* C3
\* ------------------------------------------------------------------------

\* every snapshot held under frame f deserializes to a state whose frame is f
SnapshotsMatchFrame ==
    \A c \in Cells :
        cells[c].some =>
            /\ Deserialize(cells[c].buffer).ok
            /\ Deserialize(cells[c].buffer).state.frame = cells[c].frame

\* a Save for a frame that is not the live one fails and leaves the cells alone
MismatchedSaveFails ==
    (Handling("Save") /\ Request.frame # game_state.frame) =>
        (status' # "running" /\ cells' = cells)

\* C3: a Save whose frame differs from the live frame fails and deposits
\* nothing, and every snapshot ever deposited under frame f is the
\* serialization of a state whose frame field is f.
C3_SaveFrameChecked == [](SnapshotsMatchFrame) /\ [][MismatchedSaveFails]_vars

\* a Save was refused while a cell holds a snapshot of a later frame
C3_Witness ==
    /\ status = "panic: assert_eq"
    /\ Last.kind = "Save"
    /\ Last.frame # game_state.frame
    /\ \E c \in Cells : cells[c].some /\ cells[c].frame > 0

\* ------------------------------------------------------------------------
\* C4
\* ------------------------------------------------------------------------

\* the positions lie inside the window s
InsideField(gs, s) ==
    \A p \in Players :
        /\ 0 <= gs.positions[p][1] /\ gs.positions[p][1] <= s[1]
        /\ 0 <= gs.positions[p][2] /\ gs.positions[p][2] <= s[2]

\* C4: after any Advance every player's position (x, y) satisfies
\* 0 <= x <= field-width and 0 <= y <= field-height.
C4_PositionBound ==
    [][Handling("Advance") => InsideField(game_state', screen)]_vars

\* ------------------------------------------------------------------------
\* C5
\* ------------------------------------------------------------------------

\* the periodic record changes only in an Advance to a multiple of the period,
\* an Advance to a multiple sets it, and an Advance to another frame keeps it
PeriodicStep ==
    /\ periodic_checksum' # periodic_checksum =>
          (Handling("Advance") /\ game_state'.frame % CHECKSUM_PERIOD = 0)
    /\ (Handling("Advance") /\ game_state'.frame % CHECKSUM_PERIOD = 0) =>
          periodic_checksum' =
              << game_state'.frame, fletcher16(Serialize(game_state')) >>
    /\ (Handling("Advance") /\ game_state'.frame % CHECKSUM_PERIOD # 0) =>
          periodic_checksum' = periodic_checksum

\* C5: the periodic checksum record changes only during an Advance whose
\* resulting frame is a multiple of the checksum period, and then becomes
\* (resulting frame, checksum of the resulting state); every Advance to another
\* frame leaves it unchanged.
C5_PeriodicChecksum == [][PeriodicStep]_vars

\* the periodic record was written a second time, and frames went on
C5_Witness ==
    /\ periodic_checksum[1] = 2 * CHECKSUM_PERIOD
    /\ game_state.frame > 2 * CHECKSUM_PERIOD

\* ------------------------------------------------------------------------
\* C6
\* ------------------------------------------------------------------------

\* the engine, the cells and the status after the operation of one request
\* is applied to st under screen width sw; a panic ends the process, and
\* nothing is applied after it
Apply(st, req, sw) ==
    IF st.status # "running" THEN st
    ELSE IF req.kind = "Load" THEN
        Only({ [st EXCEPT !.game = r.bg,
                          !.status = IF r.ok THEN "running" ELSE "panic: unwrap"] :
                 r \in { load_game_state(st.game, st.cells[req.cell]) } })
    ELSE IF req.kind = "Save" THEN
        Only({ [st EXCEPT !.cells[req.cell] = r.cell,
                          !.status = IF r.ok THEN "running" ELSE "panic: assert_eq"] :
                 r \in { save_game_state(st.game, st.cells[req.cell], req.frame) } })
    ELSE
        Only({ [st EXCEPT !.game = r.bg,
                          !.status = IF r.ok THEN "running" ELSE "panic: unwrap"] :
                 r \in { advance_frame(st.game, req.inputs, sw) } })

\* the operation of req applied n times in a row
RECURSIVE Repeat(_, _, _, _)
Repeat(st, req, n, sw) ==
    IF n = 0 THEN st
    ELSE IF n = 1 THEN Apply(st, req, sw)
    ELSE Only({ Repeat(half, req, n - n \div 2, sw) :
                  half \in { Repeat(st, req, n \div 2, sw) } })

\* the operations of the requests of a batch applied one after another in
\* list order, from segment k on
RECURSIVE ApplyAll(_, _, _, _)
ApplyAll(st, batch, k, sw) ==
    IF k > Len(batch) THEN st
    ELSE Only({ ApplyAll(next, batch, k + 1, sw) :
                  next \in { Repeat(st, batch[k].req, batch[k].count, sw) } })

\* C6: the dispatcher runs every request of a batch exactly once and in the
\* order supplied: when handle_requests returns, the state, the checksum
\* records and the cells are those obtained by applying the operation of each
\* request one after another in list order to what they were when the batch
\* arrived (under the window of that time); a request that panics ends the
\* process, and the state is the one that request left.
C6_InOrder ==
    (BatchDone \/ status # "running") =>
        [game |-> Game, cells |-> cells, status |-> status]
          = ApplyAll([game |-> start.game, cells |-> start.cells,
                      status |-> "running"], requests, 1, start.screen[1])

\* a batch of two requests of different kinds has been handled, and it changed
\* both the live state and a cell
C6_Witness ==
    /\ status = "running"
    /\ BatchDone
    /\ Len(requests) = 2
    /\ requests[1].req.kind = "Advance"
    /\ requests[2].req.kind = "Save"
    /\ cells # start.cells
    /\ game_state.velocities # start.game.game_state.velocities

\* ------------------------------------------------------------------------
\* C7
\* ------------------------------------------------------------------------

\* the players whose input of the Advance at pc carries the sentinel frame
Sentinels == { p \in Players : Request.inputs[p].frame = NULL_FRAME }

\* an Advance gives every such player the spin and friction alone, and
\* completes the frame
FallbackStep ==
    (Handling("Advance") /\ Sentinels # { }) =>
        /\ status' = "running"
        /\ game_state'.frame = game_state.frame + 1
        /\ \A p \in Sentinels :
              /\ game_state'.rotations[p] =
                    RemEuclid(Float(game_state.rotations[p] - ROTATION_SPEED),
                              TWO_PI)
              /\ game_state'.velocities[p] = SlowDown(game_state.velocities[p])

\* C7: in an Advance a player whose input carries the sentinel frame gets the
\* fixed fallback input whatever its bytes: the buffer is not decoded, the
\* rotation moves by the fixed angular step, the velocity only decays by
\* friction, and the Advance completes the frame.
C7_Fallback == [][FallbackStep]_vars

\* an Advance has just given the fallback to a moving player whose buffer
\* holds the thrust bit
C7_Witness ==
    /\ status = "running"
    /\ Ran
    /\ Last.kind = "Advance"
    /\ Last.inputs[1] = Disconnected(<< INPUT_UP >>)
    /\ game_state.frame > CHECKSUM_PERIOD
    /\ game_state.velocities[1] # << 0, 0 >>
    /\ game_state.rotations[1] # 0

\* ------------------------------------------------------------------------
\* C8
\* ------------------------------------------------------------------------

\* C8: after any Advance every player's velocity magnitude is at most
\* the maximum speed.
C8_SpeedClamp ==
    \A p \in Players :
        SquaredSpeed(game_state.velocities[p]) <= MAX_SPEED * MAX_SPEED

\* ------------------------------------------------------------------------
\* C9
\* ------------------------------------------------------------------------

\* what each kind of request does to the frame counter
FrameStep ==
    /\ Handling("Advance") => game_state'.frame = game_state.frame + 1
    /\ Handling("Save") => game_state'.frame = game_state.frame
    /\ (Handling("Load") /\ status' = "running") =>
          game_state'.frame = cells[Request.cell].frame
    /\ ~Handling("Load") => game_state'.frame >= game_state.frame

\* C9: the frame counter starts at 0; every Advance increases it by exactly 1;
\* a Save leaves it unchanged; a Load sets it to the frame of the loaded
\* snapshot; so without a Load it never decreases, and it grows with every
\* Advance.
C9_FrameCounter == game_state.frame = 0 /\ [][FrameStep]_vars

\* a Load has just taken the live state back to an earlier frame
C9_Witness ==
    /\ status = "running"
    /\ Ran
    /\ Last.kind = "Load"
    /\ game_state.frame > 0
    /\ game_state.frame < last_checksum[1]

\* ------------------------------------------------------------------------
\* C10
\* ------------------------------------------------------------------------

\* an Advance or a Load leaves every cell as it is, and a Load makes the live
\* state the snapshot's state in every field
SnapshotStep ==
    /\ (Handling("Advance") \/ Handling("Load")) => cells' = cells
    /\ (Handling("Load") /\ status' = "running") =>
          /\ Serialize(game_state') = cells[Request.cell].buffer
          /\ game_state' = Deserialize(cells[Request.cell].buffer).state

\* C10: snapshots are independent copies: no Advance or Load on the live state
\* changes what a cell holds, and a Load replaces every field of the live
\* state by the snapshot's value, keeping nothing of the previous live state.
C10_Snapshots == [][SnapshotStep]_vars

\* a Load has just restored a snapshot that the live state had moved away from
\* in frame, position, velocity and rotation
C10_Witness ==
    /\ status = "running"
    /\ Ran
    /\ Last.kind = "Load"
    /\ Serialize(game_state) = cells[Last.cell].buffer
    /\ game_state.frame < last_checksum[1]
    /\ last_checksum[2] # cells[Last.cell].checksum

\* ------------------------------------------------------------------------
\* C11
\* ------------------------------------------------------------------------

\* the request at pc is a Save of a frame that is not the live one
SaveFails == Handling("Save") /\ Request.frame # game_state.frame

\* the request at pc is a Load from a cell without a buffer, or with a buffer
\* that is not the image of a state
LoadFails ==
    /\ Handling("Load")
    /\ \/ ~cells[Request.cell].some
       \/ ~Deserialize(cells[Request.cell].buffer).ok

\* the request at pc is an Advance with a missing input or with an input of
\* a connected player that has no byte to decode
DecodeFails ==
    /\ Handling("Advance")
    /\ \E p \in Players :
          \/ p > Len(Request.inputs)
          \/ /\ Request.inputs[p].frame # NULL_FRAME
             /\ Len(Request.inputs[p].buffer) < 1

\* the outcome of the request at pc: each failure ends the call at this very
\* request, with the panic of its kind, and no other request ends it
ReportStep ==
    /\ SaveFails => status' = "panic: assert_eq"
    /\ (LoadFails \/ DecodeFails) => status' = "panic: unwrap"
    /\ (~SaveFails /\ ~LoadFails /\ ~DecodeFails) => status' = status

PlayerView(gs, p) == << gs.positions[p], gs.velocities[p], gs.rotations[p] >>

\* the live state with the values of every player but p replaced by those
\* the player had when the batch was received
OthersReplaced(p) ==
    [frame |-> game_state.frame,
     positions |-> [q \in Players |->
        IF q = p THEN game_state.positions[q]
        ELSE start.game.game_state.positions[q]],
     velocities |-> [q \in Players |->
        IF q = p THEN game_state.velocities[q]
        ELSE start.game.game_state.velocities[q]],
     rotations |-> [q \in Players |->
        IF q = p THEN game_state.rotations[q]
        ELSE start.game.game_state.rotations[q]]]

\* the inputs with the input of every player but p replaced by no key
OtherInputsReplaced(inputs, p) ==
    [q \in Players |-> IF q = p THEN inputs[q] ELSE Connected(0)]

Abs(x) == IF x < 0 THEN -x ELSE x

\* the request at pc is an Advance in which no player presses any key
Coasting == Handling("Advance") /\ Request.inputs = Idle

\* a coasting Advance lets no velocity component, and so no velocity
\* magnitude, grow
NoFaster ==
    Coasting =>
        \A p \in Players :
            /\ Abs(game_state'.velocities[p][1]) <= Abs(game_state.velocities[p][1])
            /\ Abs(game_state'.velocities[p][2]) <= Abs(game_state.velocities[p][2])
            /\ SquaredSpeed(game_state'.velocities[p])
                  <= SquaredSpeed(game_state.velocities[p])

\* every player is at rest
AtRest == \A p \in Players : game_state.velocities[p] = << 0, 0 >>

\* every velocity is zero or a residue the rounded multiplication by the
\* friction factor returns unchanged
Residual ==
    \A p \in Players :
        /\ FMul(game_state.velocities[p][1], FRICTION) = game_state.velocities[p][1]
        /\ FMul(game_state.velocities[p][2], FRICTION) = game_state.velocities[p][2]

\* a coasting Advance would leave every position where it is
Still ==
    \A p \in Players :
        Move(game_state.positions[p], SlowDown(game_state.velocities[p]), screen[1])
          = game_state.positions[p]

\* the coasting batch has been run to its end
CoastDone == status = "running" /\ BatchDone /\ requests # << >>

\* a coasting Advance keeps velocities and positions that have stopped
\* changing as they are
StaysSettled ==
    (Coasting /\ Residual /\ Still) =>
        /\ game_state'.velocities = game_state.velocities
        /\ game_state'.positions = game_state.positions

NoChecksumYet ==
    /\ last_checksum = << NULL_FRAME, 0 >>
    /\ periodic_checksum = << NULL_FRAME, 0 >>

\* an Advance that completes leaves the frame and the checksum of the state
\* it leaves as the last record; until an Advance runs, the records stay at
\* the sentinel
LastChecksumStep ==
    /\ (Handling("Advance") /\ status' = "running") =>
          last_checksum' =
             << game_state'.frame, fletcher16(Serialize(game_state')) >>
    /\ (~Handling("Advance") /\ NoChecksumYet) => NoChecksumYet'

\* C14: immediately after every Advance the last-checksum record is the frame
\* of the live state with the checksum of the serialization of the live
\* state as it is after all players were updated; before the first Advance
\* both checksum records hold the sentinel frame with value 0.
C14_LastChecksum == NoChecksumYet /\ [][LastChecksumStep]_vars

\* an Advance past the first checksum period has just recorded the checksum
\* of a state with a moving player, and the periodic record is an older one
C14_Witness ==
    /\ status = "running"
    /\ Ran
    /\ Last.kind = "Advance"
    /\ game_state.frame > CHECKSUM_PERIOD
    /\ last_checksum = << game_state.frame, fletcher16(Serialize(game_state)) >>
    /\ periodic_checksum[1] < last_checksum[1]
    /\ periodic_checksum[2] # last_checksum[2]
    /\ \E p \in Players : game_state.velocities[p] # << 0, 0 >>

\* ------------------------------------------------------------------------
\* C15
\* ------------------------------------------------------------------------

\* a Load or an Advance that fails leaves the live state and the checksum
\* records as they were or ends the session; and every step is taken by a
\* session that has not ended, so that nothing runs after a failure
AtomicStep ==
    /\ status = "running"
    /\ (LoadFails \/ DecodeFails) =>
          \/ status' # "running"
          \/ /\ game_state' = game_state
             /\ last_checksum' = last_checksum
             /\ periodic_checksum' = periodic_checksum

\* C15: a failing operation never leaves partially applied state for the
\* caller to continue with: when the decoding of an input fails in an Advance,
\* or a Load finds no buffer or one that does not deserialize, the live state
\* and the checksum records are as before the request or the session is
\* aborted, and no later request of the batch runs on a state in which the
\* frame counter or some players were updated and others were not.
C15_NoPartialState == [][AtomicStep]_vars

\* an Advance has failed on player 1's input after the frame counter and
\* player 0 were updated; the session has ended with a request of the batch
\* left unrun
C15_Witness ==
    /\ status = "panic: unwrap"
    /\ Last.kind = "Advance"
    /\ Last.inputs = Undecodable
    /\ ~BatchDone
    /\ game_state.frame = start.game.game_state.frame + 1
    /\ game_state.velocities[1] # start.game.game_state.velocities[1]
    /\ game_state.velocities[2] = start.game.game_state.velocities[2]
    /\ last_checksum[1] < game_state.frame

\* ------------------------------------------------------------------------
\* C16
\* ------------------------------------------------------------------------

\* every rotation is at least 0 and less than a full turn
RotationsInRange ==
    \A p \in Players :
        0 <= game_state.rotations[p] /\ game_state.rotations[p] < TWO_PI

\* an Advance that completes turns the player with the left key alone or the
\* right key alone by the angular step, wrapped, and leaves the others'
\* rotation alone
TurnStep ==
    (Handling("Advance") /\ status' = "running") =>
        \A p \in Players :
            LET input == PlayerInput(Request.inputs[p]).input
                left == BitSet(input, INPUT_LEFT)
                right == BitSet(input, INPUT_RIGHT)
                rot == game_state.rotations[p]
            IN game_state'.rotations[p] =
                 IF left /\ ~right
                 THEN RemEuclid(Float(rot - ROTATION_SPEED), TWO_PI)
                 ELSE IF right /\ ~left
                 THEN RemEuclid(Float(rot + ROTATION_SPEED), TWO_PI)
                 ELSE rot

\* C16: every rotation r satisfies 0 <= r < 2 pi in every reachable state:
\* rotations start at 0, an Advance with the left key alone or the right key
\* alone moves the rotation by the fixed angular step wrapped into [0, 2 pi),
\* and an Advance with both keys or neither leaves it unchanged.
C16_RotationRange == [](RotationsInRange) /\ [][TurnStep]_vars

\* ------------------------------------------------------------------------
\* C17
\* ------------------------------------------------------------------------

\* data[lo] + ... + data[hi]
RECURSIVE ByteSum(_, _, _)
ByteSum(data, lo, hi) ==
    IF lo > hi THEN 0
    ELSE IF lo = hi THEN data[lo]
    ELSE ByteSum(data, lo, (lo + hi) \div 2)
         + ByteSum(data, (lo + hi) \div 2 + 1, hi)

\* the sum of the sums data[1] + ... + data[i] for i in lo..hi: data[j] is
\* counted once for every i >= j
RECURSIVE PrefixSum(_, _, _)
PrefixSum(data, lo, hi) ==
    IF lo > hi THEN 0
    ELSE IF lo = hi THEN ByteSum(data, 1, lo)
    ELSE PrefixSum(data, lo, (lo + hi) \div 2)
         + PrefixSum(data, (lo + hi) \div 2 + 1, hi)

\* after each byte the two sums are the sum of the bytes read and the sum of
\* those sums, both modulo 255, and so between 0 and 254
SumsReduced ==
    /\ fletcher.sum1 \in 0..254
    /\ fletcher.sum2 \in 0..254
    /\ fletcher.sum1 = ByteSum(fletcher.data, 1, fletcher.index - 1) % 255
    /\ fletcher.sum2 = PrefixSum(fletcher.data, 1, fletcher.index - 1) % 255

\* the additions of the next pass and the shift of the return fit 16 bits
FitsU16 ==
    /\ fletcher.index <= Len(fletcher.data) =>
          /\ fletcher.sum1 + fletcher.data[fletcher.index] < 65536
          /\ fletcher.sum2
               + ((fletcher.sum1 + fletcher.data[fletcher.index]) % 255) < 65536
    /\ fletcher.sum2 * 256 + fletcher.sum1 < 65536

\* the value returned is sum2 in the high byte and sum1 in the low byte, a
\* function of the bytes and their order: the engine's fletcher16 of the
\* same buffer, and 0xC8F0 for "abcde"
Returned ==
    fletcher.returned =>
        /\ fletcher.value = fletcher.sum2 * 256 + fletcher.sum1
        /\ fletcher.value \div 256 =
              PrefixSum(fletcher.data, 1, Len(fletcher.data)) % 255
        /\ fletcher.value % 256 =
              ByteSum(fletcher.data, 1, Len(fletcher.data)) % 255
        /\ fletcher.value = fletcher16(fletcher.data)
        /\ fletcher.data = << 97, 98, 99, 100, 101 >> => fletcher.value = 51440

\* C17: fletcher16 returns (sum2 << 8) | sum1 where both sums start at 0 and,
\* for each byte in order, sum1 becomes (sum1 + byte) mod 255 and sum2 becomes
\* (sum2 + sum1) mod 255: the sums are reduced after every byte, no
\* intermediate value exceeds 16 bits, both sums stay in 0..254, and the
\* result depends only on the bytes and their order.
C17_Fletcher16 == SumsReduced /\ FitsU16 /\ Returned

\* fletcher16 has returned for a buffer whose first pass left sum1 at 254 and
\* whose second added the byte 255 to it
C17_Witness ==
    /\ fletcher.returned
    /\ Len(fletcher.data) >= 2
    /\ fletcher.data[1] = 254
    /\ fletcher.data[2] = 255
    /\ fletcher.value = fletcher16(fletcher.data)

\* ------------------------------------------------------------------------
\* C18
\* ------------------------------------------------------------------------

\* the engine bg after k Advances with the same inputs under screen width sw
RECURSIVE Advanced(_, _, _, _)
Advanced(bg, inputs, k, sw) ==
    IF k = 0 THEN bg
    ELSE Only({ Advanced(next, inputs, k - 1, sw) :
                  next \in { advance_frame(bg, inputs, sw).bg } })

\* the engine after the rollback: the live state is saved into cell c and
\* advanced k times with the inputs under the window of the moment; then the
\* cell is loaded back and the state advanced k times with the same inputs
\* under the window s
Replayed(c, inputs, k, s) ==
    Only({ Only({ Advanced(back, inputs, k, s[1]) :
                    back \in { load_game_state(first, saved).bg } }) :
             saved \in { save_game_state(Game, cells[c], game_state.frame).cell },
             first \in { Advanced(Game, inputs, k, screen[1]) } })

\* C18: rollback replay is consistent: after a Save at frame f, k Advances
\* with the input list I, a Load of the saved cell and k Advances with the same
\* list I, the live state and the last-checksum record equal those after the
\* first k Advances, and the periodic record equals its value after the first
\* run.
C18_Replay ==
    status = "running" =>
        \A c \in Cells : \A inputs \in { Idle, Garbage } : \A k \in 1..2 :
        \A s \in Screens :
            Replayed(c, inputs, k, s) = Advanced(Game, inputs, k, screen[1])

\* ------------------------------------------------------------------------
\* C19
\* ------------------------------------------------------------------------

\* both checksum records keep their values
RecordsKept ==
    last_checksum' = last_checksum /\ periodic_checksum' = periodic_checksum

\* what a Save and a Load that succeed leave alone, and the operation behind
\* every change of a checksum record
OwnEffectStep ==
    /\ (Handling("Save") /\ status' = "running") =>
          /\ game_state' = game_state
          /\ RecordsKept
          /\ \A c \in Cells \ { Request.cell } : cells'[c] = cells[c]
    /\ (Handling("Load") /\ status' = "running") =>
          /\ RecordsKept
          /\ cells' = cells
    /\ ~RecordsKept => Handling("Advance")

\* C19: a Save that succeeds changes nothing but the target cell: the live
\* state, both checksum records and the other cells are as before; a Load
\* changes nothing but the live state: both checksum records keep the values
\* they had, although they may describe another frame than the loaded one, and
\* the cells are as before; only an Advance writes a checksum record.
C19_OwnEffects == [][OwnEffectStep]_vars

\* a Load has just put back an earlier frame under a last-checksum record of
\* a later one, out of a cell filled by a Save
C19_Witness ==
    /\ status = "running"
    /\ Ran
    /\ Last.kind = "Load"
    /\ cells[Last.cell].some
    /\ game_state.frame = cells[Last.cell].frame
    /\ last_checksum[1] > game_state.frame

====
